---- MODULE Spec2Model ----
(***************************************************************************)
(* Indexed-expression evaluation of the CTF tensor interface:              *)
(* tCTF_Idx_Tensor (indexed views, their assignment operators and the      *)
(* leaf execute), the inference of contraction intermediates               *)
(* (get_intermediate), the chained evaluation (run), and the tensor        *)
(* primitives sum / contract they are lowered to.                          *)
(***************************************************************************)
EXTENDS Integers, Sequences, FiniteSets, TLC

VARIABLES tensors,   \* caller-owned tensors: id -> [len, sym, data]
          intms,     \* engine-created tensors still allocated: id -> [len, sym, data]
          calls,     \* primitive calls issued by the last operation, in order
          last,      \* the last operation: its kind, destination view and term
          pre,       \* the caller-owned tensors as they were before the last operation
          err,       \* "ok", or the error the last operation ended with
          nops,      \* operations performed so far
          giA, giB,  \* operand views handed to get_intermediate (metadata only)
          giOut      \* the intermediate view get_intermediate returned

vars == <<tensors, intms, calls, last, pre, err, nops, giA, giB, giOut>>

(***************************************************************************)
(* Bounds of the model.                                                    *)
(***************************************************************************)
MaxOps == 1        \* operations per behaviour
MaxSeed == 2       \* initial fillings of the caller's tensors
MaxDim == 3        \* rank of the operands handed to get_intermediate
MaxKeys == 2       \* number of coordinate keys of a sparse tensor

(***************************************************************************)
(* Index labels, index tuples and environments.                            *)
(***************************************************************************)
Labels(idx) == {idx[d] : d \in DOMAIN idx}

Pos(idx, l) == CHOOSE d \in DOMAIN idx : idx[d] = l

NoRepeat(idx) == \A d, e \in DOMAIN idx : idx[d] = idx[e] => d = e

MaxOf(len) == IF DOMAIN len = {} THEN 0
              ELSE CHOOSE m \in {len[d] : d \in DOMAIN len} :
                     \A d \in DOMAIN len : len[d] <= m

\* every index tuple of a tensor with edge lengths len
IdxSet(len) == {s \in [DOMAIN len -> 1..MaxOf(len)] : \A d \in DOMAIN len : s[d] <= len[d]}

\* the index tuple a view with index map idx addresses under environment env
Tuple(idx, env) == [d \in DOMAIN idx |-> env[idx[d]]]

\* the environment an index tuple s of a view with index map idx defines
EnvOf(idx, s) == [l \in Labels(idx) |-> s[Pos(idx, l)]]

\* edge length of label l, taken from the first operand of ops that carries it
Extent(ops, l) ==
  LET k == CHOOSE k \in DOMAIN ops :
             /\ l \in Labels(ops[k].idx)
             /\ \A j \in DOMAIN ops : l \in Labels(ops[j].idx) => k <= j
  IN  ops[k].len[Pos(ops[k].idx, l)]

\* every assignment of in-range indices to the labels labs
Envs(ops, labs) ==
  LET m == MaxOf([k \in DOMAIN ops |-> MaxOf(ops[k].len)])
  IN  {e \in [labs -> 1..m] : \A l \in labs : e[l] <= Extent(ops, l)}

RECURSIVE SumFn(_, _)
SumFn(f, S) == IF S = {} THEN 0
               ELSE LET e == CHOOSE e \in S : TRUE IN f[e] + SumFn(f, S \ {e})

\* product of the operands' entries under environment env
RECURSIVE ProdAt(_, _, _)
ProdAt(ops, k, env) ==
  IF k > Len(ops) THEN 1
  ELSE ops[k].data[Tuple(ops[k].idx, env)] * ProdAt(ops, k + 1, env)

\* Einstein summation of the operands ops (each [len, idx, data]) onto the
\* labels out: every label of the operands that out lacks is summed over
Einsum(ops, out, eo) ==
  LET all == UNION {Labels(ops[k].idx) : k \in DOMAIN ops}
      red == all \ Labels(out)
      E   == Envs(ops, red)
  IN  SumFn([r \in E |-> ProdAt(ops, 1, eo @@ r)], E)

(***************************************************************************)
(* The tensor primitives.  A store T maps a tensor id to [len, sym, data]; *)
(* data maps every index tuple to its value.                               *)
(***************************************************************************)
Operand(T, id, idx) == [len |-> T[id].len, idx |-> idx, data |-> T[id].data]

\* labels two index maps share must name dimensions of equal edge length
LensAgree(lenA, idxA, lenB, idxB) ==
  \A l \in Labels(idxA) \cap Labels(idxB) : lenA[Pos(idxA, l)] = lenB[Pos(idxB, l)]

\* CTF_Tensor::sum on B (this tensor): B[idx_B] = beta*B[idx_B] + alpha*A[idx_A]
TensorSum(T, alpha, A, idxA, beta, B, idxB) ==
  [b \in IdxSet(T[B].len) |->
     beta * T[B].data[b]
       + alpha * Einsum(<<Operand(T, A, idxA)>>, idxB, EnvOf(idxB, b))]

\* CTF_Tensor::contract on C (this tensor):
\* C[idx_C] = beta*C[idx_C] + alpha*A[idx_A]*B[idx_B]
TensorContract(T, alpha, A, idxA, B, idxB, beta, C, idxC) ==
  [c \in IdxSet(T[C].len) |->
     beta * T[C].data[c]
       + alpha * Einsum(<<Operand(T, A, idxA), Operand(T, B, idxB)>>, idxC, EnvOf(idxC, c))]

\* the metadata conditions of a sum: "ok" or the failure
SumCheck(T, A, idxA, B, idxB) ==
  IF ~(Labels(idxB) \subseteq Labels(idxA)) THEN "UnboundFreeIndex"
  ELSE IF ~LensAgree(T[A].len, idxA, T[B].len, idxB) THEN "DimensionMismatch"
  ELSE "ok"

\* the metadata conditions of a contraction: "ok" or the failure
ContractCheck(T, A, idxA, B, idxB, C, idxC) ==
  IF ~(Labels(idxC) \subseteq (Labels(idxA) \cup Labels(idxB))) THEN "UnboundFreeIndex"
  ELSE IF ~(/\ LensAgree(T[A].len, idxA, T[B].len, idxB)
            /\ LensAgree(T[A].len, idxA, T[C].len, idxC)
            /\ LensAgree(T[B].len, idxB, T[C].len, idxC)) THEN "DimensionMismatch"
  ELSE "ok"

(***************************************************************************)
(* Execution state threaded through one operation: the store T (caller's   *)
(* tensors and intermediates), the primitive calls issued, the ids of the  *)
(* tensors the engine created, and the error that stopped it.              *)
(***************************************************************************)
SumCall(alpha, A, idxA, beta, B, idxB) ==
  [op |-> "sum", alpha |-> alpha, A |-> A, idxA |-> idxA, B |-> "none", idxB |-> <<>>,
   beta |-> beta, C |-> B, idxC |-> idxB]

ContractCall(alpha, A, idxA, B, idxB, beta, C, idxC) ==
  [op |-> "contract", alpha |-> alpha, A |-> A, idxA |-> idxA, B |-> B, idxB |-> idxB,
   beta |-> beta, C |-> C, idxC |-> idxC]

StartState(T) == [T |-> T, calls |-> <<>>, made |-> <<>>, err |-> "ok"]

\* F applied to the value of x: x is computed once, before F uses it
Then(x, F(_)) == CHOOSE r \in {F(v) : v \in {x}} : TRUE

\* one call of CTF_Tensor::sum; a failed operation issues nothing further
PrimSum(st0, alpha, A, idxA, beta, B, idxB) ==
  Then(st0, LAMBDA st :
    IF st.err # "ok" THEN st
    ELSE IF SumCheck(st.T, A, idxA, B, idxB) # "ok"
         THEN [st EXCEPT !.err = SumCheck(st.T, A, idxA, B, idxB)]
    ELSE [st EXCEPT !.T[B].data = TensorSum(st.T, alpha, A, idxA, beta, B, idxB),
                    !.calls = Append(@, SumCall(alpha, A, idxA, beta, B, idxB))])

\* one call of CTF_Tensor::contract
PrimContract(st0, alpha, A, idxA, B, idxB, beta, C, idxC) ==
  Then(st0, LAMBDA st :
    IF st.err # "ok" THEN st
    ELSE IF ContractCheck(st.T, A, idxA, B, idxB, C, idxC) # "ok"
         THEN [st EXCEPT !.err = ContractCheck(st.T, A, idxA, B, idxB, C, idxC)]
    ELSE [st EXCEPT !.T[C].data =
                      TensorContract(st.T, alpha, A, idxA, B, idxB, beta, C, idxC),
                    !.calls = Append(@, ContractCall(alpha, A, idxA, B, idxB,
                                                     beta, C, idxC))])

\* ids of engine-created tensors, in order of creation
IntmIds == <<"t1", "t2", "t3">>

\* new tCTF_Tensor(ndim, len, sym, world): a zero-filled tensor
NewTensor(st0, len, sym) ==
  Then(st0, LAMBDA st :
    [st EXCEPT !.T = (IntmIds[Len(st.made) + 1]
                        :> [len |-> len, sym |-> sym,
                            data |-> [s \in IdxSet(len) |-> 0]]) @@ @,
               !.made = Append(@, IntmIds[Len(st.made) + 1])])

\* tCTF_Tensor(A, 1): a copy of tensor A with its data
CopyTensor(st0, A) ==
  Then(st0, LAMBDA st :
    [st EXCEPT !.T = (IntmIds[Len(st.made) + 1] :> st.T[A]) @@ @,
               !.made = Append(@, IntmIds[Len(st.made) + 1])])

(***************************************************************************)
(* get_intermediate(A, B): the view of the tensor a contraction of views   *)
(* A and B produces.  A view is handed over with its parent's metadata:    *)
(* [idx_map, len, sym].                                                    *)
(***************************************************************************)
\* the counting loops: dimensions of X whose label no dimension of Y carries
CountSurvivors(X, Y) ==
  Cardinality({i \in DOMAIN X.idx_map :
                 ~\E j \in DOMAIN Y.idx_map : X.idx_map[i] = Y.idx_map[j]})

ndim_C(A, B) == CountSurvivors(A, B) + CountSurvivors(B, A)

\* one filling loop over the dimensions i.. of X: a surviving dimension is
\* appended with tag NS, after handing the previous entry X's tag when that
\* entry is X's dimension i-1 and X relates i-1 to i
RECURSIVE FillLoop(_, _, _, _)

\* (mutant) a filling loop that hands on X's tag without asking whether the
\* previous entry is X's dimension i-1
FillLoopKeepsTag(acc, X, Y, i) ==
  IF i > Len(X.idx_map) THEN acc
  ELSE IF \E j \in DOMAIN Y.idx_map : X.idx_map[i] = Y.idx_map[j]
       THEN FillLoop(acc, X, Y, i + 1)
  ELSE LET n == Len(acc.idx_map)
           keep == n >= 1 /\ i >= 2 /\ X.sym[i - 1] # "NS"
           sym1 == IF keep THEN [acc.sym EXCEPT ![n] = X.sym[i - 1]] ELSE acc.sym
       IN  FillLoop([idx_map |-> Append(acc.idx_map, X.idx_map[i]),
                     len     |-> Append(acc.len, X.len[i]),
                     sym     |-> Append(sym1, "NS")], X, Y, i + 1)

\* (mutant) a filling loop that enters X's own tag for the new dimension
\* where the code enters NS
FillLoopCopiesTag(acc, X, Y, i) ==
  IF i > Len(X.idx_map) THEN acc
  ELSE IF \E j \in DOMAIN Y.idx_map : X.idx_map[i] = Y.idx_map[j]
       THEN FillLoop(acc, X, Y, i + 1)
  ELSE FillLoop([idx_map |-> Append(acc.idx_map, X.idx_map[i]),
                 len     |-> Append(acc.len, X.len[i]),
                 sym     |-> Append(acc.sym, X.sym[i])], X, Y, i + 1)

FillLoop(acc, X, Y, i) ==
  IF i > Len(X.idx_map) THEN acc
  ELSE IF \E j \in DOMAIN Y.idx_map : X.idx_map[i] = Y.idx_map[j]
       THEN FillLoop(acc, X, Y, i + 1)
  ELSE LET n == Len(acc.idx_map)
           keep == /\ n >= 1
                   /\ i >= 2
                   /\ acc.idx_map[n] = X.idx_map[i - 1]
                   /\ X.sym[i - 1] # "NS"
           sym1 == IF keep THEN [acc.sym EXCEPT ![n] = X.sym[i - 1]] ELSE acc.sym
       IN  FillLoop([idx_map |-> Append(acc.idx_map, X.idx_map[i]),
                     len     |-> Append(acc.len, X.len[i]),
                     sym     |-> Append(sym1, "NS")], X, Y, i + 1)

\* (mutant) an inference that fills in B's surviving dimensions first
get_intermediate_BFirst(A, B) ==
  LET fromB == FillLoop([idx_map |-> <<>>, len |-> <<>>, sym |-> <<>>], B, A, 1)
      both  == FillLoop(fromB, A, B, 1)
      n     == ndim_C(A, B)
  IN  [ndim    |-> n,
       idx_map |-> SubSeq(both.idx_map, 1, n),
       len     |-> SubSeq(both.len, 1, n),
       sym     |-> SubSeq(both.sym, 1, n),
       is_intm |-> 1]

get_intermediate(A, B) ==
  LET fromA == FillLoop([idx_map |-> <<>>, len |-> <<>>, sym |-> <<>>], A, B, 1)
      both  == FillLoop(fromA, B, A, 1)
      n     == ndim_C(A, B)
  IN  [ndim    |-> n,
       idx_map |-> SubSeq(both.idx_map, 1, n),
       len     |-> SubSeq(both.len, 1, n),
       sym     |-> SubSeq(both.sym, 1, n),
       is_intm |-> 1]

\* a view together with its parent's metadata in store T
WithMeta(T, v) == [idx_map |-> v.idx_map, len |-> T[v.parent].len, sym |-> T[v.parent].sym]

(***************************************************************************)
(* Terms.  A view (tCTF_Idx_Tensor) is a leaf term; its scale is the       *)
(* term's scale.  Sum and contraction terms carry their operands in ops.   *)
(***************************************************************************)
View(parent, idx_map, scale) ==
  [kind |-> "leaf", parent |-> parent, idx_map |-> idx_map, scale |-> scale,
   is_intm |-> 0, ops |-> <<>>]

SumTerm(ops, scale) ==
  [kind |-> "sum", parent |-> "none", idx_map |-> <<>>, scale |-> scale,
   is_intm |-> 0, ops |-> ops]

ContractTerm(l, r, scale) ==
  [kind |-> "contract", parent |-> "none", idx_map |-> <<>>, scale |-> scale,
   is_intm |-> 0, ops |-> <<l, r>>]

\* (mutant) a leaf execute with alpha and beta exchanged
LeafExecuteSwapsScales(leaf, output, st) ==
  PrimSum(st, output.scale, leaf.parent, leaf.idx_map,
          leaf.scale, output.parent, output.idx_map)

\* (mutant) a leaf execute that always overwrites the destination
LeafExecuteOverwrites(leaf, output, st) ==
  PrimSum(st, leaf.scale, leaf.parent, leaf.idx_map,
          0, output.parent, output.idx_map)

\* (mutant) a leaf execute that sums the destination into the leaf's tensor
LeafExecuteWritesOperand(leaf, output, st) ==
  PrimSum(st, output.scale, output.parent, output.idx_map,
          leaf.scale, leaf.parent, leaf.idx_map)

\* (mutant) a leaf execute that always accumulates into the destination
LeafExecuteAlwaysAccumulates(leaf, output, st) ==
  PrimSum(st, leaf.scale, leaf.parent, leaf.idx_map,
          1, output.parent, output.idx_map)

\* tCTF_Idx_Tensor::execute(output): the leaf's single primitive call
LeafExecute(leaf, output, st) ==
  PrimSum(st, leaf.scale, leaf.parent, leaf.idx_map,
          output.scale, output.parent, output.idx_map)

\* the labels, lengths and symmetry a term produces
RECURSIVE FreeView(_, _)
FreeView(T, t) ==
  IF t.kind = "leaf" THEN WithMeta(T, t)
  ELSE IF t.kind = "contract"
       THEN LET g == get_intermediate(FreeView(T, t.ops[1]), FreeView(T, t.ops[2]))
            IN  [idx_map |-> g.idx_map, len |-> g.len, sym |-> g.sym]
  ELSE FreeView(T, t.ops[1])

RECURSIVE Execute(_, _, _)
RECURSIVE SumChildren(_, _, _, _)
RECURSIVE Materialize(_, _)

\* Sum.execute: the children in stored order against the same destination,
\* the first with the destination's beta, the later ones accumulating
SumChildren(t, output, st, i) ==
  IF i > Len(t.ops) THEN st
  ELSE SumChildren(t, output,
                   Execute([t.ops[i] EXCEPT !.scale = @ * t.scale],
                           IF i = 1 THEN output ELSE [output EXCEPT !.scale = 1], st),
                   i + 1)

\* a nested operand of a contraction: executed into a private intermediate
\* with its own scale and beta 0, then used as a leaf
Materialize(t, st0) ==
  Then(st0, LAMBDA st :
    IF t.kind = "leaf" \/ st.err # "ok" THEN [leaf |-> t, st |-> st]
    ELSE Then(FreeView(st.T, t), LAMBDA fv :
         Then(NewTensor(st, fv.len, fv.sym), LAMBDA st1 :
         Then([View(st1.made[Len(st1.made)], fv.idx_map, 0) EXCEPT !.is_intm = 1],
              LAMBDA iv :
                [leaf |-> [iv EXCEPT !.scale = 1], st |-> Execute(t, iv, st1)]))))

\* Contract.execute: left then right operand materialized, then one contract
ContractExecute(t, output, st) ==
  Then(Materialize(t.ops[1], st), LAMBDA ml :
  Then(Materialize(t.ops[2], ml.st), LAMBDA mr :
    PrimContract(mr.st, t.scale * ml.leaf.scale * mr.leaf.scale,
                 ml.leaf.parent, ml.leaf.idx_map, mr.leaf.parent, mr.leaf.idx_map,
                 output.scale, output.parent, output.idx_map)))

\* tCTF_Term::execute(output), dispatched on the term's variant
Execute(t, output, st) ==
  IF t.kind = "leaf" THEN LeafExecute(t, output, st)
  ELSE IF t.kind = "sum" THEN SumChildren(t, output, st, 1)
  ELSE ContractExecute(t, output, st)

(***************************************************************************)
(* The assignment operators of tCTF_Idx_Tensor.  Each yields the view as   *)
(* the operator leaves it and the execution state it ends in.              *)
(***************************************************************************)
\* (mutant) operator= that leaves the view's scale as it was
OpAssignKeepsScale(view, B, T) ==
  [view |-> view, st |-> Execute(B, view, StartState(T))]

\* operator=(tCTF_Term B): this->scale = 0.0; B.execute(*this)
OpAssign(view, B, T) ==
  LET v == [view EXCEPT !.scale = 0]
  IN  [view |-> v, st |-> Execute(B, v, StartState(T))]

\* (mutant) operator+= that leaves the view's scale as it was
OpPlusAssignKeepsScale(view, B, T) ==
  [view |-> view, st |-> Execute(B, view, StartState(T))]

\* operator+=(tCTF_Term B): this->scale = 1.0; B.execute(*this)
OpPlusAssign(view, B, T) ==
  LET v == [view EXCEPT !.scale = 1]
  IN  [view |-> v, st |-> Execute(B, v, StartState(T))]

\* (mutant) operator-= that does not negate the term's scale
OpMinusAssignNoNegation(view, B, T) ==
  LET v == [view EXCEPT !.scale = 1]
  IN  [view |-> v, st |-> Execute(B, v, StartState(T))]

\* (mutant) operator-= that stores 0 in the view's scale
OpMinusAssignZeroesScale(view, B, T) ==
  LET v == [view EXCEPT !.scale = 0]
      N == [B EXCEPT !.scale = @ * (-1)]
  IN  [view |-> v, st |-> Execute(N, v, StartState(T))]

\* operator-=(tCTF_Term B): this->scale = 1.0; B.scale *= -1.0; B.execute(*this)
OpMinusAssign(view, B, T) ==
  LET v == [view EXCEPT !.scale = 1]
      N == [B EXCEPT !.scale = @ * (-1)]
  IN  [view |-> v, st |-> Execute(N, v, StartState(T))]

\* (*this)*B: a contraction term over a copy of the view and B
Times(view, B) == ContractTerm(view, B, 1)

\* (mutant) operator*= whose left operand is the view after the assignment
\* has stored beta in its scale
OpTimesAssignZeroedOperand(view, B, T) ==
  OpAssign(view, Times([view EXCEPT !.scale = 0], B), T)

\* operator*=(tCTF_Term B): ctrm = (*this)*B; *this = ctrm
OpTimesAssign(view, B, T) == OpAssign(view, Times(view, B), T)

(***************************************************************************)
(* The caller's tensors and the expressions the caller writes.             *)
(***************************************************************************)
TensorIds == {"A", "B", "C", "D", "V"}

LenOf == [A |-> <<2, 2>>, B |-> <<2, 3>>, C |-> <<3, 2>>, D |-> <<2, 2>>, V |-> <<2>>]

Ord == [A |-> 0, B |-> 1, C |-> 2, D |-> 3, V |-> 4]

\* the k-th initial filling of tensor t: entries in -2..2
Fill(t, k) ==
  [s \in IdxSet(LenOf[t]) |->
     ((k * (IF Len(s) = 1 THEN s[1] ELSE 3 * s[1] + s[2]) + Ord[t] * s[1] + k) % 5) - 2]

ij == <<"i", "j">>
ji == <<"j", "i">>
ik == <<"i", "k">>
kj == <<"k", "j">>
kl == <<"k", "l">>
lj == <<"l", "j">>

\* terms written against a destination labelled ij
LeafTermsIJ ==
  {View("A", ij, 2), View("A", ji, 1), View("D", ji, 1), View("D", ij, 2),
   View("B", ij, 1), View("B", ik, 1)}

SumTermsIJ ==
  {SumTerm(<<View("A", ij, 1), View("A", ji, 2)>>, 1),
   SumTerm(<<View("A", ij, 1), View("D", ij, 1)>>, 1),
   SumTerm(<<View("D", ji, 1), View("A", ij, 1)>>, 1),
   SumTerm(<<View("A", ij, 1), View("A", ji, 1), View("A", ij, 2)>>, 2)}

ContractTermsIJ ==
  {ContractTerm(View("A", ik, 2), View("A", kj, 1), 1),
   ContractTerm(View("A", ik, 1), View("D", kj, 1), 1),
   ContractTerm(View("B", ik, 1), View("C", kj, 1), 2),
   ContractTerm(View("V", <<"i">>, 1), View("V", <<"j">>, 1), 1),
   ContractTerm(View("B", ik, 1), View("B", kj, 1), 1)}

NestedTermsIJ ==
  {ContractTerm(ContractTerm(View("A", ik, 1), View("B", kl, 1), 1),
                View("C", lj, 1), 1),
   SumTerm(<<View("A", ij, 1), ContractTerm(View("B", ik, 1), View("C", kj, 1), 1)>>, 1),
   ContractTerm(SumTerm(<<View("A", ik, 1), View("D", ik, 1)>>, 1), View("A", kj, 1), 1)}

\* terms whose metadata is wrong in an operand that is not the first to run
FailingTermsIJ ==
  {SumTerm(<<View("A", ij, 1), View("B", ij, 1)>>, 1),
   SumTerm(<<View("A", ij, 1), ContractTerm(View("A", ik, 1), View("A", kl, 1), 1)>>, 1),
   ContractTerm(ContractTerm(View("A", ik, 1), View("A", kl, 1), 1),
                View("C", lj, 1), 1)}

TermsIJ ==
  LeafTermsIJ \cup SumTermsIJ \cup ContractTermsIJ \cup NestedTermsIJ \cup FailingTermsIJ

\* terms written against a destination labelled i
TermsI ==
  {View("V", <<"i">>, 2), View("A", ik, 1),
   ContractTerm(View("A", ik, 1), View("V", <<"k">>, 1), 1),
   SumTerm(<<View("A", ik, 1), View("V", <<"i">>, 1)>>, 1)}

\* the statements a caller writes: a destination view, with the scale the
\* view object carries beforehand, and a term
Statements ==
  ({View("D", ij, s) : s \in {1, 2}} \X TermsIJ)
    \cup ({View("A", ij, 1)} \X {View("A", ji, 1), View("D", ij, 1),
                                 ContractTerm(View("A", ik, 1), View("A", kj, 1), 1),
                                 SumTerm(<<View("D", ij, 1), View("A", ji, 1)>>, 1)})
    \cup ({View("V", <<"i">>, 1)} \X TermsI)

\* direct calls leaf.execute(output): the output view carries any beta
LeafCalls ==
  ({View("D", ij, s) : s \in {-1, 0, 2}} \X LeafTermsIJ)
    \cup ({View("V", <<"i">>, 2)} \X {View("A", ik, 2), View("V", <<"i">>, 1)})

\* direct calls sum.execute(output)
SumCalls == {View("D", ij, s) : s \in {-1, 2}} \X SumTermsIJ

NoTerm == [kind |-> "none"]

Init ==
  /\ \E k \in 1..MaxSeed :
       tensors = [t \in TensorIds |-> [len |-> LenOf[t],
                                        sym |-> [d \in DOMAIN LenOf[t] |-> "NS"],
                                        data |-> Fill(t, k)]]
  /\ intms = <<>>
  /\ calls = <<>>
  /\ last = [op |-> "none", dest |-> NoTerm, view |-> NoTerm, term |-> NoTerm]
  /\ pre = tensors
  /\ err = "ok"
  /\ nops = 0
  /\ giA = NoTerm /\ giB = NoTerm /\ giOut = NoTerm

\* the state one operator call leaves: r is what the operator yields
Perform(op, view, B, r0) ==
  /\ nops < MaxOps
  /\ err = "ok"
  /\ \E r \in {r0} :
       /\ tensors' = [t \in TensorIds |-> r.st.T[t]]
       /\ intms' = [n \in DOMAIN r.st.made |-> r.st.T[r.st.made[n]]]
       /\ calls' = r.st.calls
       /\ last' = [op |-> op, dest |-> view, view |-> r.view, term |-> B]
       /\ err' = r.st.err
  /\ pre' = tensors
  /\ nops' = nops + 1
  /\ UNCHANGED <<giA, giB, giOut>>

Assign ==
  \E stmt \in Statements :
    Perform("=", stmt[1], stmt[2], OpAssign(stmt[1], stmt[2], tensors))

PlusAssign ==
  \E stmt \in Statements :
    Perform("+=", stmt[1], stmt[2], OpPlusAssign(stmt[1], stmt[2], tensors))

MinusAssign ==
  \E stmt \in Statements :
    Perform("-=", stmt[1], stmt[2], OpMinusAssign(stmt[1], stmt[2], tensors))

TimesAssign ==
  \E stmt \in Statements :
    Perform("*=", stmt[1], stmt[2], OpTimesAssign(stmt[1], stmt[2], tensors))

\* leaf.execute(output), called directly
ExecuteLeaf ==
  \E c \in LeafCalls :
    Perform("execute", c[1], c[2],
            [view |-> c[1], st |-> LeafExecute(c[2], c[1], StartState(tensors))])

\* sum.execute(output), called directly
ExecuteSum ==
  \E c \in SumCalls :
    Perform("execute", c[1], c[2],
            [view |-> c[1], st |-> Execute(c[2], c[1], StartState(tensors))])

Next == Assign \/ PlusAssign \/ MinusAssign \/ TimesAssign \/ ExecuteLeaf \/ ExecuteSum

Spec == Init /\ [][Next]_vars

(***************************************************************************)
(* The same term node executed twice into the same destination.            *)
(***************************************************************************)
TwiceCalls ==
  ({View("D", ij, s) : s \in {0, 1, 2}}
     \X (LeafTermsIJ \cup SumTermsIJ \cup ContractTermsIJ \cup NestedTermsIJ))
    \cup ({View("V", <<"i">>, 1)} \X TermsI)

\* t.execute(output); t.execute(output)
ExecuteTwice ==
  \E c \in TwiceCalls :
    Perform("execute twice", c[1], c[2],
            [view |-> c[1],
             st |-> Execute(c[2], c[1], Execute(c[2], c[1], StartState(tensors)))])

SpecTwice == Init /\ [][ExecuteTwice]_vars

(***************************************************************************)
(* tCTF_Idx_Tensor(parent_, idx_map_, copy).  idx_map_ is a C string: its  *)
(* characters and the terminator; what lies behind the terminator is not   *)
(* the string's, and a read of it yields any byte.  In copy mode the       *)
(* constructor copies *parent, the member it has not yet set: the pointer  *)
(* is indeterminate, so the copy is of whatever tensor it happens to       *)
(* designate, or the read faults.                                          *)
(***************************************************************************)
NUL == "NUL"

Bytes == {"i", "j", NUL}

\* memcpy(idx_map, idx_map_, ndim): junk[d] is the byte found at offset d
\* outside the string
CopiedLabels(str, ndim, junk) ==
  [d \in 1..ndim |-> IF d <= Len(str) THEN str[d]
                     ELSE IF d = Len(str) + 1 THEN NUL
                     ELSE junk[d]]

\* the label strings a caller hands to the constructor
LabelStrings == {<<>>, <<"i">>, ij, ji, <<"i", "j", "k">>, <<"k", "j", "i">>}

\* the constructor with copy == 0
ConstructBorrowed(parent_, idx_map_, junk) ==
  [view |-> View(parent_, CopiedLabels(idx_map_, Len(LenOf[parent_]), junk), 1),
   made |-> <<>>, err |-> "ok"]

\* the constructor with copy != 0; g is the tensor the indeterminate member
\* designates, "fault" when it designates none
ConstructCopied(parent_, idx_map_, junk, g) ==
  IF g = "fault" THEN [view |-> NoTerm, made |-> <<>>, err |-> "fault"]
  ELSE [view |-> View(IntmIds[1], CopiedLabels(idx_map_, Len(LenOf[g]), junk), 1),
        made |-> <<tensors[g]>>, err |-> "ok"]

Construct ==
  \E parent_ \in TensorIds, idx_map_ \in LabelStrings, copy \in {0, 1},
     junk \in [1..2 -> Bytes], g \in TensorIds \cup {"fault"} :
    LET r == IF copy = 0 THEN ConstructBorrowed(parent_, idx_map_, junk)
             ELSE ConstructCopied(parent_, idx_map_, junk, g)
    IN  /\ nops < MaxOps
        /\ err = "ok"
        /\ last' = [op |-> "new", dest |-> NoTerm, view |-> r.view,
                    term |-> [kind |-> "args", parent |-> parent_,
                              idx_map |-> idx_map_, copy |-> copy]]
        /\ intms' = r.made
        /\ err' = r.err
        /\ calls' = <<>>
        /\ pre' = tensors
        /\ nops' = nops + 1
        /\ UNCHANGED <<tensors, giA, giB, giOut>>

\* the views handed to the copy constructor
OtherViews ==
  {View("A", ij, 1), View("A", ji, 2), View("B", ik, 1), View("V", <<"i">>, 0),
   [View("D", ij, 1) EXCEPT !.is_intm = 1]}

\* tCTF_Idx_Tensor(other, copy): the view, and the tensor made for it
ConstructFromView(other, copy) ==
  IF copy # 0
  THEN [view |-> [other EXCEPT !.parent = IntmIds[1]],
        made |-> <<tensors[other.parent]>>, err |-> "ok"]
  ELSE [view |-> other, made |-> <<>>, err |-> "ok"]

CopyConstruct ==
  \E other \in OtherViews, copy \in {0, 1} :
    \E r \in {ConstructFromView(other, copy)} :
      /\ nops < MaxOps
      /\ err = "ok"
      /\ last' = [op |-> "copy", dest |-> NoTerm, view |-> r.view,
                  term |-> [kind |-> "args", parent |-> other.parent,
                            idx_map |-> other.idx_map, copy |-> copy]]
      /\ intms' = r.made
      /\ err' = r.err
      /\ calls' = <<>>
      /\ pre' = tensors
      /\ nops' = nops + 1
      /\ UNCHANGED <<tensors, giA, giB, giOut>>

\* ~tCTF_Idx_Tensor(): CTF_free(idx_map), and nothing else: the tensor the
\* view references stays as it is, whoever made it
Destroy ==
  /\ last.op \in {"new", "copy"}
  /\ last.view # NoTerm
  /\ last' = [last EXCEPT !.op = "delete", !.view = NoTerm]
  /\ UNCHANGED <<tensors, intms, calls, pre, err, nops, giA, giB, giOut>>

SpecView == Init /\ [][Construct \/ CopyConstruct \/ Destroy]_vars

(***************************************************************************)
(* A view object assigned to and then used as an operand:                  *)
(*   view op= term;  A["ij"] += view                                       *)
(* The view is made by the constructor and carries the scale earlier       *)
(* statements left in it.                                                  *)
(***************************************************************************)
FreshView ==
  ConstructBorrowed("D", ij, [d \in 1..2 |-> NUL]).view

ReuseTerms ==
  {View("A", ij, 2), View("A", ji, 1),
   SumTerm(<<View("A", ij, 1), View("A", ji, 2)>>, 1),
   ContractTerm(View("A", ik, 2), View("A", kj, 1), 1),
   ContractTerm(View("B", ik, 1), View("C", kj, 1), 2),
   SumTerm(<<View("A", ij, 1), ContractTerm(View("B", ik, 1), View("C", kj, 1), 1)>>, 1)}

ApplyOp(op, view, B, T) ==
  IF op = "=" THEN OpAssign(view, B, T)
  ELSE IF op = "+=" THEN OpPlusAssign(view, B, T)
  ELSE OpMinusAssign(view, B, T)

AssignThenUse ==
  \E op \in {"=", "+=", "-="}, scale \in {1, 2, -1}, B \in ReuseTerms :
    /\ nops < MaxOps
    /\ err = "ok"
    /\ \E view0 \in {[FreshView EXCEPT !.scale = scale]} :
         \E r1 \in {ApplyOp(op, view0, B, tensors)} :
           Perform("then use", View("A", ij, 1),
                   [kind |-> "reuse", first |-> op, fresh |-> FreshView,
                    view0 |-> view0, term |-> B, view1 |-> r1.view,
                    calls1 |-> r1.st.calls, err1 |-> r1.st.err],
                   OpPlusAssign(View("A", ij, 1), r1.view,
                                [t \in TensorIds |-> r1.st.T[t]]))

SpecReuse == Init /\ [][AssignThenUse]_vars

(***************************************************************************)
(* run(output, beta): the evaluation of a chain of views.  A view of the   *)
(* chain carries has_scale and the link to its neighbour NBR: "contract"   *)
(* (has_contract), "sum" (has_sum) or "none".  chain[1] is this view,      *)
(* chain[2] its NBR, and so on.                                            *)
(***************************************************************************)
Node(parent, idx_map, scale, has_scale, link) ==
  [parent |-> parent, idx_map |-> idx_map, scale |-> scale,
   has_scale |-> has_scale, link |-> link]

\* if (has_scale) alpha = scale; else alpha = 1.0;
RunAlpha(this) == IF this.has_scale THEN this.scale ELSE 1

\* (mutant) a contraction that leaves out the neighbour's scale
RunAlphaNbrDropped(alpha, NBR) == alpha

\* if (NBR->has_scale) alpha *= NBR->scale;
RunAlphaNbr(alpha, NBR) == IF NBR.has_scale THEN alpha * NBR.scale ELSE alpha

RECURSIVE run(_, _, _, _)
run(chain, output, beta, st0) ==
  Then(st0, LAMBDA st :
  LET this == chain[1]
      NBR  == chain[2]
  IN
  IF st.err # "ok" THEN st
  ELSE IF this.link = "contract" THEN
    LET alpha == RunAlphaNbr(RunAlpha(this), NBR) IN
    IF NBR.link # "none" THEN
      Then(get_intermediate(WithMeta(st.T, this), WithMeta(st.T, NBR)), LAMBDA g :
      Then(NewTensor(st, g.len, g.sym), LAMBDA st1 :
      Then(Node(st1.made[Len(st1.made)], g.idx_map, 1, FALSE, NBR.link), LAMBDA itsr :
        run(<<itsr>> \o SubSeq(chain, 3, Len(chain)), output, beta,
            PrimContract(st1, alpha, this.parent, this.idx_map,
                         NBR.parent, NBR.idx_map, 0, itsr.parent, itsr.idx_map)))))
    ELSE PrimContract(st, alpha, this.parent, this.idx_map,
                      NBR.parent, NBR.idx_map, beta, output.parent, output.idx_map)
  ELSE IF this.link = "sum" THEN
    Then(CopyTensor(st, this.parent), LAMBDA st1 :
    Then(View(st1.made[Len(st1.made)], this.idx_map, 1), LAMBDA itsr :
      PrimSum(run(Tail(chain), itsr, RunAlpha(this), st1),
              1, itsr.parent, this.idx_map, beta, output.parent, output.idx_map)))
  ELSE PrimSum(st, RunAlpha(this), this.parent, this.idx_map,
               beta, output.parent, output.idx_map))

il == <<"i", "l">>
jl == <<"j", "l">>
jk == <<"j", "k">>

\* a view's scale as the chain carries it: unset, or set to 2
NodeScales == {<<1, FALSE>>, <<2, TRUE>>}

ChainShapes ==
  { <<<<"A", ik, "contract">>, <<"B", kj, "contract">>, <<"C", jl, "none">>>>,
    <<<<"A", ij, "contract">>, <<"D", jk, "contract">>, <<"A", kl, "none">>>>,
    <<<<"A", ik, "contract">>, <<"A", kj, "contract">>, <<"C", jl, "none">>>>,
    <<<<"A", ik, "contract">>, <<"A", kl, "sum">>, <<"D", il, "none">>>>,
    <<<<"A", ik, "contract">>, <<"D", kl, "none">>>>,
    <<<<"A", il, "sum">>, <<"D", il, "none">>>>,
    <<<<"A", il, "none">>>> }

Chains ==
  UNION { { [n \in DOMAIN sh |->
               Node(sh[n][1], sh[n][2], sc[n][1], sc[n][2], sh[n][3])] :
            sc \in [DOMAIN sh -> NodeScales] } : sh \in ChainShapes }

Run ==
  \E chain \in Chains, beta \in {0, 1} :
    LET output == View("D", il, 1) IN
    Perform("run", output, [kind |-> "chain", chain |-> chain, beta |-> beta],
            [view |-> output, st |-> run(chain, output, beta, StartState(tensors))])

SpecRun == Init /\ [][Run]_vars

(***************************************************************************)
(* CTF_Sparse_Tensor: a sequence of global indices into a parent tensor.   *)
(* write: forall(j) i = indices[j]; parent[i] = beta*parent[i] +           *)
(* alpha*values[j].  read: forall(j) i = indices[j]; values[j] =           *)
(* alpha*parent[i] + beta*values[j].  The forall fixes no order among the  *)
(* j: the writes happen in any order.                                      *)
(***************************************************************************)
SparseParent == "D"

\* the index tuple a global index designates (first dimension fastest)
TupleOf(len, g) ==
  IF Len(len) = 1 THEN <<g + 1>>
  ELSE <<(g % len[1]) + 1, (g \div len[1]) + 1>>

GlobalIndices == 0..(LenOf[SparseParent][1] * LenOf[SparseParent][2] - 1)

\* the orders in which n writes can happen
Orders(n) == {o \in [1..n -> 1..n] : \A a, b \in 1..n : a # b => o[a] # o[b]}

RECURSIVE WriteInOrder(_, _, _, _, _, _, _)
WriteInOrder(data, len, indices, values, alpha, beta, order) ==
  IF order = <<>> THEN data
  ELSE LET j == Head(order)
           i == TupleOf(len, indices[j])
       IN  WriteInOrder([data EXCEPT ![i] = beta * @ + alpha * values[j]],
                        len, indices, values, alpha, beta, Tail(order))

\* (mutant) a read with the two scaling factors exchanged
SparseReadSwapsScales(data, len, indices, alpha, values, beta) ==
  [j \in DOMAIN indices |->
     beta * data[TupleOf(len, indices[j])] + alpha * values[j]]

\* read(alpha, values, beta): the values array it leaves
SparseRead(data, len, indices, alpha, values, beta) ==
  [j \in DOMAIN indices |->
     alpha * data[TupleOf(len, indices[j])] + beta * values[j]]

SparseVals == {5, 7}

SparseWrite ==
  \E n \in 0..MaxKeys :
    \E indices \in [1..n -> GlobalIndices], values \in [1..n -> SparseVals],
       alpha \in {1, 2}, beta \in {0, 1}, order \in Orders(n) :
      /\ last.op = "none"
      /\ tensors' = [tensors EXCEPT ![SparseParent].data =
                       WriteInOrder(@, LenOf[SparseParent], indices, values,
                                    alpha, beta, order)]
      /\ last' = [op |-> "write", dest |-> NoTerm, view |-> NoTerm,
                  term |-> [kind |-> "sparse", indices |-> indices,
                            values |-> values, alpha |-> alpha, beta |-> beta]]
      /\ pre' = tensors
      /\ UNCHANGED <<intms, calls, err, nops, giA, giB, giOut>>

SparseReadBack ==
  \E alpha \in {1, 2}, beta \in {0, 1}, fill \in {0, 3} :
    /\ last.op = "write"
    /\ last' = [op |-> "read", dest |-> NoTerm, view |-> NoTerm,
                term |-> [kind |-> "sparse", indices |-> last.term.indices,
                          values |-> last.term.values,
                          alpha |-> last.term.alpha, beta |-> last.term.beta,
                          ralpha |-> alpha, rbeta |-> beta,
                          out |-> SparseRead(tensors[SparseParent].data,
                                             LenOf[SparseParent], last.term.indices,
                                             alpha,
                                             [j \in DOMAIN last.term.indices |-> fill],
                                             beta)]]
    /\ UNCHANGED <<tensors, intms, calls, pre, err, nops, giA, giB, giOut>>

SpecSparse == Init /\ [][SparseWrite \/ SparseReadBack]_vars

(***************************************************************************)
(* get_intermediate applied to operand views drawn from bounded sets.      *)
(***************************************************************************)
LabelSet == {"i", "j", "k", "l"}

\* edge lengths of the labels
ExtentTables ==
  {[i |-> 2, j |-> 2, k |-> 2, l |-> 2],
   [i |-> 2, j |-> 2, k |-> 3, l |-> 3]}

\* the views of tensors of rank up to MaxDim under extents ext, with
\* symmetry tags drawn from tags: no label repeats
OperandViews(ext, tags) ==
  UNION {
    {[idx_map |-> m, len |-> [d \in 1..n |-> ext[m[d]]], sym |-> y] :
       m \in {m \in [1..n -> LabelSet] : NoRepeat(m)},
       y \in [1..n -> tags]} : n \in 0..MaxDim}

\* a tag relates dimensions of equal length, the last tag is NS
ValidOperand(v) ==
  \A d \in DOMAIN v.sym :
    v.sym[d] # "NS" => d < Len(v.sym) /\ v.len[d] = v.len[d + 1]

InitInterm ==
  /\ tensors = [t \in TensorIds |-> [len |-> LenOf[t],
                                      sym |-> [d \in DOMAIN LenOf[t] |-> "NS"],
                                      data |-> Fill(t, 1)]]
  /\ intms = <<>>
  /\ calls = <<>>
  /\ last = [op |-> "none", dest |-> NoTerm, view |-> NoTerm, term |-> NoTerm]
  /\ pre = tensors
  /\ err = "ok"
  /\ nops = 0
  /\ \E ext \in ExtentTables :
       /\ giA \in {v \in OperandViews(ext, {"NS", "SY"}) : ValidOperand(v)}
       /\ giB \in {v \in OperandViews(ext, {"NS", "AS"}) : ValidOperand(v)}
  /\ giOut = NoTerm

GetIntermediate ==
  /\ giOut = NoTerm
  /\ giOut' = get_intermediate(giA, giB)
  /\ UNCHANGED <<tensors, intms, calls, last, pre, err, nops, giA, giB>>

SpecInterm == InitInterm /\ [][GetIntermediate]_vars

(***************************************************************************)
(* The value of a term, read off the term alone: what the expression       *)
(* denotes in Einstein notation over a store T, independent of how it is   *)
(* executed.                                                               *)
(***************************************************************************)
RECURSIVE TermLeaves(_, _)
RECURSIVE LeavesFrom(_, _, _)
TermLeaves(T, t) ==
  IF t.kind = "leaf" THEN <<Operand(T, t.parent, t.idx_map)>> ELSE LeavesFrom(T, t.ops, 1)
LeavesFrom(T, ops, i) ==
  IF i > Len(ops) THEN <<>> ELSE TermLeaves(T, ops[i]) \o LeavesFrom(T, ops, i + 1)

RECURSIVE FreeLabels(_)
FreeLabels(t) ==
  IF t.kind = "leaf" THEN Labels(t.idx_map)
  ELSE IF t.kind = "contract"
       THEN (FreeLabels(t.ops[1]) \ FreeLabels(t.ops[2]))
              \cup (FreeLabels(t.ops[2]) \ FreeLabels(t.ops[1]))
  ELSE FreeLabels(t.ops[1])

\* the value of term t mapped onto the labels L, at the indices env gives L
RECURSIVE OntoAt(_, _, _, _)
RECURSIVE OntoSum(_, _, _, _, _)
OntoAt(T, t, L, env) ==
  LET e0 == [l \in L |-> env[l]] IN
  IF t.kind = "leaf"
  THEN LET E == Envs(TermLeaves(T, t), Labels(t.idx_map) \ L)
       IN  t.scale * SumFn([r \in E |-> T[t.parent].data[Tuple(t.idx_map, e0 @@ r)]], E)
  ELSE IF t.kind = "contract"
  THEN LET Fl == FreeLabels(t.ops[1])
           Fr == FreeLabels(t.ops[2])
           E  == Envs(TermLeaves(T, t), (Fl \cup Fr) \ L)
       IN  t.scale * SumFn([r \in E |-> OntoAt(T, t.ops[1], Fl, e0 @@ r)
                                          * OntoAt(T, t.ops[2], Fr, e0 @@ r)], E)
  ELSE t.scale * OntoSum(T, t, L, e0, 1)
OntoSum(T, t, L, env, i) ==
  IF i > Len(t.ops) THEN 0
  ELSE OntoAt(T, t.ops[i], L, env) + OntoSum(T, t, L, env, i + 1)

\* the tensor (as data of the destination's shape) term t denotes for view
ValueOnto(T, t, view) ==
  [c \in IdxSet(T[view.parent].len) |->
     OntoAt(T, t, Labels(view.idx_map), EnvOf(view.idx_map, c))]

\* the tensors a term reads
RECURSIVE Reads(_)
Reads(t) ==
  IF t.kind = "leaf" THEN {t.parent} ELSE UNION {Reads(t.ops[i]) : i \in DOMAIN t.ops}

DestData == tensors[last.dest.parent].data
OldData == pre[last.dest.parent].data
DestLabels == Labels(last.dest.idx_map)

\* the tensors read by what a top-level sum executes after its first child
RECURSIVE LateReads(_)
LateReads(t) ==
  IF t.kind = "sum"
  THEN LateReads(t.ops[1]) \cup UNION {Reads(t.ops[i]) : i \in DOMAIN t.ops \ {1}}
  ELSE {}

\* the term reads its destination only where the read precedes every write
ReadsBeforeWrites == last.dest.parent \notin LateReads(last.term)

C4_LeafExecuteIsOneSum ==
  (last.op = "execute" /\ last.term.kind = "leaf" /\ err = "ok") =>
     /\ calls = <<SumCall(last.term.scale, last.term.parent, last.term.idx_map,
                          last.dest.scale, last.dest.parent, last.dest.idx_map)>>
     /\ intms = <<>>
     /\ tensors = [pre EXCEPT ![last.dest.parent].data =
                     TensorSum(pre, last.term.scale, last.term.parent, last.term.idx_map,
                               last.dest.scale, last.dest.parent, last.dest.idx_map)]

\* a direct leaf execute with alpha 2 and beta -1 that changed the destination
C4_Witness ==
  /\ last.op = "execute" /\ last.term.kind = "leaf" /\ err = "ok"
  /\ last.term.scale = 2 /\ last.dest.scale = -1
  /\ tensors # pre

(***************************************************************************)
(* C5.  view *= t builds Contract(Leaf(view), t) and assigns it to the     *)
(* view: afterwards T equals the contraction of old(T)[L], with the scale  *)
(* the view carried, with t, written into L with overwrite semantics; the  *)
(* beta the assignment stores does not zero the left operand.              *)
(***************************************************************************)
C5_TimesAssignContractsOldValue ==
  (last.op = "*=" /\ err = "ok") =>
     /\ DestData = ValueOnto(pre, ContractTerm(last.dest, last.term, 1), last.dest)
     /\ last.view.scale = 0

\* an in-place contraction through a view of scale 2 that left a non-zero result
C5_Witness ==
  /\ last.op = "*=" /\ err = "ok"
  /\ last.dest.scale = 2
  /\ \E c \in DOMAIN DestData : DestData[c] # 0 /\ DestData[c] # OldData[c]

(***************************************************************************)
(* C9.  Sum.execute(destination) executes every child against the same     *)
(* destination, the first with the destination's beta and each later one   *)
(* with beta 1, so the destination ends as beta*old(dest) + c1 + ... + cn: *)
(* the old contents are scaled once and no later child overwrites an       *)
(* earlier child's contribution.                                           *)
(***************************************************************************)
\* the term the operation executed: operator-= negates its scale first
ExecutedTerm ==
  IF last.op = "-=" THEN [last.term EXCEPT !.scale = @ * (-1)] ELSE last.term

\* the store once the first n children of sum t have been added into view,
\* each child's value read off the store as it stands when the child executes
RECURSIVE AfterChildren(_, _, _, _)
AfterChildren(T, t, view, n) ==
  IF n = 0 THEN T
  ELSE LET P == AfterChildren(T, t, view, n - 1)
           b == IF n = 1 THEN view.scale ELSE 1
           v == ValueOnto(P, [t.ops[n] EXCEPT !.scale = @ * t.scale], view)
       IN  [P EXCEPT ![view.parent].data = [c \in DOMAIN v |-> b * @[c] + v[c]]]

AllLeaves(t) == \A i \in DOMAIN t.ops : t.ops[i].kind = "leaf"

C6_WrongLengthIsRejected ==
  last.op = "new" =>
    LET a == last.term
        ndim == Len(LenOf[a.parent])
    IN  /\ Len(a.idx_map) # ndim => err = "ShapeMismatch" /\ last.view = NoTerm
        /\ last.view # NoTerm => last.view.idx_map = a.idx_map

\* a view made from a one-label string over a matrix
C6_Witness ==
  /\ last.op = "new"
  /\ last.term.copy = 0
  /\ Len(last.term.idx_map) < Len(LenOf[last.term.parent])
  /\ last.view # NoTerm
  /\ err = "ok"

(***************************************************************************)
(* C7.  For operand views A and B without repeated labels, the inferred    *)
(* intermediate has as its label sequence exactly the labels in exactly    *)
(* one of A and B, A's survivors in A's order and then B's in B's order;   *)
(* its rank is the size of that symmetric difference; the edge length of   *)
(* each label is that of the dimension of the operand that owns it; no     *)
(* label of both operands appears.                                         *)
(***************************************************************************)
Survivors(X, Y) ==
  SelectSeq(X.idx_map, LAMBDA l : l \notin Labels(Y.idx_map))

OwnerLen(A, B, l) ==
  IF l \in Labels(A.idx_map) THEN A.len[Pos(A.idx_map, l)]
  ELSE B.len[Pos(B.idx_map, l)]

SymDiff(A, B) ==
  (Labels(A.idx_map) \cup Labels(B.idx_map))
    \ (Labels(A.idx_map) \cap Labels(B.idx_map))

C7_IntermediateLabelsAreSymmetricDifference ==
  giOut # NoTerm =>
    /\ giOut.idx_map = Survivors(giA, giB) \o Survivors(giB, giA)
    /\ Labels(giOut.idx_map) = SymDiff(giA, giB)
    /\ giOut.ndim = Cardinality(SymDiff(giA, giB))
    /\ Len(giOut.idx_map) = giOut.ndim
    /\ Len(giOut.len) = giOut.ndim
    /\ \A d \in 1..giOut.ndim :
         giOut.len[d] = OwnerLen(giA, giB, giOut.idx_map[d])
    /\ Labels(giOut.idx_map) \cap Labels(giA.idx_map) \cap Labels(giB.idx_map) = {}

\* both operands keep a label and lose one, and the kept lengths differ
C7_Witness ==
  /\ giOut # NoTerm
  /\ Labels(giA.idx_map) \cap Labels(giB.idx_map) # {}
  /\ Len(Survivors(giA, giB)) >= 1
  /\ Len(Survivors(giB, giA)) >= 1
  /\ giOut.len[1] # giOut.len[giOut.ndim]

(***************************************************************************)
(* C8.  Symmetry propagation.                                              *)
(***************************************************************************)
\* dimensions d and d+1 of out are adjacent dimensions of X, and out's tag
\* at d is the tag X carries there
TagFrom(X, out, d) ==
  \E i \in 1..(Len(X.idx_map) - 1) :
    /\ X.idx_map[i] = out.idx_map[d]
    /\ X.idx_map[i + 1] = out.idx_map[d + 1]
    /\ X.sym[i] = out.sym[d]

TagsOnlyFromAdjacentSurvivors ==
  /\ Len(giOut.sym) = giOut.ndim
  /\ \A d \in 1..giOut.ndim :
       giOut.sym[d] # "NS" =>
         d < giOut.ndim /\ (TagFrom(giA, giOut, d) \/ TagFrom(giB, giOut, d))

LastTagIsNone == giOut.ndim >= 1 => giOut.sym[giOut.ndim] = "NS"

OutTag(l) == giOut.sym[Pos(giOut.idx_map, l)]

\* C8 as stated: a dimension of the intermediate keeps a non-NONE tag only
\* when it and the next dimension are surviving labels adjacent in one
\* operand that carried the tag there; when exactly one dimension of an
\* adjacent symmetric pair is contracted away, the remaining dimension has
\* tag NONE; the last dimension has tag NONE.
C8_RemainingDimensionOfSplitPairIsNone ==
  giOut # NoTerm =>
    /\ TagsOnlyFromAdjacentSurvivors
    /\ \A X \in {giA, giB} : \A i \in 1..(Len(X.idx_map) - 1) :
         LET a == X.idx_map[i]
             b == X.idx_map[i + 1]
         IN  X.sym[i] # "NS" =>
               /\ (a \in Labels(giOut.idx_map) /\ b \notin Labels(giOut.idx_map))
                    => OutTag(a) = "NS"
               /\ (a \notin Labels(giOut.idx_map) /\ b \in Labels(giOut.idx_map))
                    => OutTag(b) = "NS"
    /\ LastTagIsNone

\* C8 (amended): a dimension of the intermediate keeps a non-NONE tag only
\* when it and the next dimension are surviving labels adjacent in one
\* operand that carried the tag there; when exactly one dimension of an
\* adjacent symmetric pair is contracted away, the pair's tag is not
\* carried over: a remaining first dimension has tag NONE, and a remaining
\* second dimension has a tag other than NONE only as the first dimension
\* of a further pair that survives whole; the last dimension has tag NONE.
C8_TagOfSplitPairIsDropped ==
  giOut # NoTerm =>
    /\ TagsOnlyFromAdjacentSurvivors
    /\ \A X \in {giA, giB} : \A i \in 1..(Len(X.idx_map) - 1) :
         LET a == X.idx_map[i]
             b == X.idx_map[i + 1]
         IN  X.sym[i] # "NS" =>
               /\ (a \in Labels(giOut.idx_map) /\ b \notin Labels(giOut.idx_map))
                    => OutTag(a) = "NS"
               /\ (a \notin Labels(giOut.idx_map) /\ b \in Labels(giOut.idx_map)
                     /\ OutTag(b) # "NS")
                    => /\ i + 2 <= Len(X.idx_map)
                       /\ X.idx_map[i + 2] \in Labels(giOut.idx_map)
                       /\ X.sym[i + 1] = OutTag(b)
    /\ LastTagIsNone

\* a symmetric pair split by the contraction beside a pair that survives
\* whole and keeps its tag
C8_Witness ==
  /\ giOut # NoTerm
  /\ \E i \in 1..(Len(giA.idx_map) - 1) :
       /\ giA.sym[i] # "NS"
       /\ giA.idx_map[i] \in Labels(giOut.idx_map)
       /\ giA.idx_map[i + 1] \notin Labels(giOut.idx_map)
  /\ \E d \in 1..giOut.ndim : giOut.sym[d] # "NS"


(***************************************************************************)
(* C10.  Evaluating D["il"] = A["ik"]*B["kj"]*C["jl"] materializes exactly *)
(* one private intermediate tensor, filled from its sub-contraction with   *)
(* beta = 0, and leaves D equal to the result of the two explicit          *)
(* sequential contractions: the inner product into a temporary, then the   *)
(* temporary with the remaining operand into D.                            *)
(***************************************************************************)
IsProductOfThree ==
  /\ last.op = "run"
  /\ Len(last.term.chain) = 3
  /\ last.term.chain[1].link = "contract"
  /\ last.term.chain[2].link = "contract"
  /\ err = "ok"

ScaleOf(n) == IF n.has_scale THEN n.scale ELSE 1

\* the temporary of the first contraction, computed on the tensors as they
\* were before the statement
TempOf(n1, n2) ==
  LET lab == SelectSeq(n1.idx_map, LAMBDA l : l \notin Labels(n2.idx_map))
               \o SelectSeq(n2.idx_map, LAMBDA l : l \notin Labels(n1.idx_map))
      A   == Operand(pre, n1.parent, n1.idx_map)
      B   == Operand(pre, n2.parent, n2.idx_map)
      len == [d \in DOMAIN lab |->
                IF lab[d] \in Labels(n1.idx_map)
                THEN A.len[Pos(n1.idx_map, lab[d])]
                ELSE B.len[Pos(n2.idx_map, lab[d])]]
  IN  [len |-> len, idx |-> lab,
       data |-> [s \in IdxSet(len) |->
                   ScaleOf(n1) * ScaleOf(n2)
                     * Einsum(<<A, B>>, lab, EnvOf(lab, s))]]

C10_ChainedProductUsesOneIntermediate ==
  IsProductOfThree =>
    LET n1  == last.term.chain[1]
        n2  == last.term.chain[2]
        n3  == last.term.chain[3]
        tmp == TempOf(n1, n2)
        out == last.dest.idx_map
    IN  /\ Len(intms) = 1
        /\ intms[1].len = tmp.len
        /\ Len(calls) = 2
        /\ calls[1] = ContractCall(ScaleOf(n1) * ScaleOf(n2),
                                   n1.parent, n1.idx_map, n2.parent, n2.idx_map,
                                   0, "t1", tmp.idx)
        /\ calls[2].op = "contract" /\ calls[2].A = "t1"
        /\ calls[2].C = last.dest.parent
        /\ \A c \in IdxSet(LenOf[last.dest.parent]) :
             DestData[c] = last.term.beta * OldData[c]
                + ScaleOf(n3)
                    * Einsum(<<tmp, Operand(pre, n3.parent, n3.idx_map)>>,
                             out, EnvOf(out, c))
        /\ (Labels(n1.idx_map) \cap Labels(n2.idx_map))
              \cap (Labels(n3.idx_map) \cup Labels(out)) = {}
           => \A c \in IdxSet(LenOf[last.dest.parent]) :
                DestData[c] = last.term.beta * OldData[c]
                   + ScaleOf(n1) * ScaleOf(n2) * ScaleOf(n3)
                       * Einsum(<<Operand(pre, n1.parent, n1.idx_map),
                                  Operand(pre, n2.parent, n2.idx_map),
                                  Operand(pre, n3.parent, n3.idx_map)>>,
                                out, EnvOf(out, c))

\* D["il"] = A["ik"]*B["kj"]*C["jl"] with a scaled middle operand, D changed
C10_Witness ==
  /\ IsProductOfThree
  /\ last.term.beta = 0
  /\ last.term.chain[1].parent = "A" /\ last.term.chain[1].idx_map = ik
  /\ last.term.chain[2].parent = "B" /\ last.term.chain[2].idx_map = kj
  /\ last.term.chain[2].has_scale
  /\ last.term.chain[3].parent = "C" /\ last.term.chain[3].idx_map = jl
  /\ Len(intms) = 1
  /\ DestData # OldData


(***************************************************************************)
(* C11.  Every metadata error of an expression (UnboundFreeIndex,          *)
(* DimensionMismatch) is raised before any primitive call is made: when an *)
(* assignment fails, no primitive has been called and no tensor -          *)
(* destination, operand or intermediate - has been modified, also when the *)
(* offending node lies deep inside a nested tree.                          *)
(***************************************************************************)
IsAssignment == last.op \in {"=", "+=", "-=", "*="}

C11_FailureLeavesTensorsUntouched ==
  (IsAssignment /\ err # "ok") =>
    /\ calls = <<>>
    /\ tensors = pre
    /\ \A n \in DOMAIN intms : \A s \in DOMAIN intms[n].data : intms[n].data[s] = 0

\* an assignment that failed after it had written the destination
C11_Witness ==
  /\ IsAssignment
  /\ err \in {"DimensionMismatch", "UnboundFreeIndex"}
  /\ last.term.kind \in {"sum", "contract"}
  /\ Len(calls) >= 1
  /\ tensors[last.dest.parent].data # pre[last.dest.parent].data


(***************************************************************************)
(* C12.  Sparse round trip.                                                *)
(***************************************************************************)
IsRoundTrip ==
  /\ last.op = "read"
  /\ last.term.alpha = 1 /\ last.term.beta = 0
  /\ last.term.ralpha = 1 /\ last.term.rbeta = 0

DistinctKeys(indices) ==
  \A a, b \in DOMAIN indices : a # b => indices[a] # indices[b]

\* C12 as stated: for every sequence of in-range keys and every value vector
\* v of the same length, write(1, v, 0) followed by read(1, out, 0) on the
\* same keys returns out = v.
C12_RoundTripOfAnyKeys == IsRoundTrip => last.term.out = last.term.values

\* C12 (amended): for every sequence of pairwise distinct in-range keys and
\* every value vector v of the same length, write(1, v, 0) followed by
\* read(1, out, 0) on the same keys returns out = v.
C12_RoundTripOfDistinctKeys ==
  (IsRoundTrip /\ DistinctKeys(last.term.indices)) =>
    last.term.out = last.term.values

\* two distinct keys written with different values and read back over a
\* prefilled array
C12_Witness ==
  /\ IsRoundTrip
  /\ Len(last.term.indices) = 2
  /\ DistinctKeys(last.term.indices)
  /\ last.term.values[1] # last.term.values[2]
  /\ last.term.out = last.term.values


(***************************************************************************)
(* C13.  A view constructed in copy mode over tensor T references a        *)
(* freshly created private tensor, distinct from T, that holds T's shape   *)
(* and data, with an index map of T.ndim labels; a view constructed with   *)
(* copy = 0 references T itself.  This for the constructor from (tensor,   *)
(* label string, copy) and for the one from (view, copy).                  *)
(***************************************************************************)
C13_CopyModeViewOwnsCopyOfParent ==
  last.op \in {"new", "copy"} =>
    LET a == last.term IN
    IF a.copy # 0
    THEN /\ err = "ok"
         /\ last.view # NoTerm
         /\ last.view.parent \notin TensorIds
         /\ Len(intms) = 1
         /\ intms[1] = tensors[a.parent]
         /\ Len(last.view.idx_map) = Len(LenOf[a.parent])
    ELSE /\ last.view # NoTerm
         /\ last.view.parent = a.parent

\* a copy-mode view over a tensor, made from a label string of the right
\* length, whose private tensor is not a copy of that tensor
C13_Witness ==
  /\ last.op = "new"
  /\ last.term.copy = 1
  /\ Len(last.term.idx_map) = Len(LenOf[last.term.parent])
  /\ err = "ok"
  /\ Len(intms) = 1
  /\ intms[1] # tensors[last.term.parent]


(***************************************************************************)
(* C14.  Executing the same term node twice is not rejected and has no     *)
(* consumed state: the second execute re-issues the same primitive calls.  *)
(***************************************************************************)
\* what one execution of the term does to the tensors as they were
OnceFrom == Execute(last.term, last.dest, StartState(pre))

\* the same call, up to the identity of an intermediate it names
SameCall(x, y) ==
  /\ x.op = y.op /\ x.alpha = y.alpha /\ x.beta = y.beta
  /\ x.idxA = y.idxA /\ x.idxB = y.idxB /\ x.idxC = y.idxC
  /\ (x.A = y.A \/ (x.A \notin TensorIds /\ y.A \notin TensorIds))
  /\ (x.B = y.B \/ (x.B \notin TensorIds /\ y.B \notin TensorIds))
  /\ (x.C = y.C \/ (x.C \notin TensorIds /\ y.C \notin TensorIds))

SecondExecuteRepeatsFirst ==
  LET h == Len(OnceFrom.calls) IN
  /\ err = "ok"
  /\ Len(calls) = 2 * h
  /\ \A n \in 1..h : calls[n] = OnceFrom.calls[n] /\ SameCall(calls[n], calls[n + h])

TwiceLeavesValue ==
  LET v == ValueOnto(pre, last.term, last.dest) IN
  /\ last.dest.scale = 1 => DestData = [c \in DOMAIN v |-> OldData[c] + 2 * v[c]]
  /\ last.dest.scale = 0 => DestData = v

\* C14 as stated: for every term, two accumulating executions leave the
\* destination at old(dest) + 2*value(term) and two overwriting executions
\* (beta 0) leave it at value(term).
C14_ReexecutionOfAnyTerm ==
  (last.op = "execute twice" /\ OnceFrom.err = "ok") =>
    SecondExecuteRepeatsFirst /\ TwiceLeavesValue

\* C14 (amended): the second execute is not rejected and re-issues the same
\* primitive calls; for a term that does not read the destination tensor,
\* two accumulating executions leave the destination at
\* old(dest) + 2*value(term) and two overwriting executions (beta 0) leave
\* it at value(term).
C14_ReexecutionRepeatsCalls ==
  (last.op = "execute twice" /\ OnceFrom.err = "ok") =>
    /\ SecondExecuteRepeatsFirst
    /\ last.dest.parent \notin Reads(last.term) => TwiceLeavesValue

\* a sum executed twice with beta 1 into non-zero old contents it does not
\* read
C14_Witness ==
  /\ last.op = "execute twice"
  /\ err = "ok"
  /\ last.term.kind = "sum"
  /\ last.dest.scale = 1
  /\ last.dest.parent \notin Reads(last.term)
  /\ Len(calls) = 4
  /\ \E c \in DOMAIN OldData : OldData[c] # 0 /\ DestData[c] # OldData[c]


(***************************************************************************)
(* C15.  Frame of expression execution: a tensor's storage changes only    *)
(* when it is named as the destination of the executed assignment.  For    *)
(* dest = / += / -= term where no operand tensor is the destination        *)
(* tensor, every operand tensor's data, shape and symmetry are the same    *)
(* after execution as before, and the index maps handed to the primitives  *)
(* are those of the operand views.                                         *)
(***************************************************************************)
RECURSIVE LeafViews(_)
LeafViews(t) ==
  IF t.kind = "leaf" THEN {t} ELSE UNION {LeafViews(t.ops[i]) : i \in DOMAIN t.ops}

C15_OnlyDestinationChanges ==
  last.op \in {"=", "+=", "-=", "*=", "execute"} =>
    /\ \A t \in TensorIds :
         /\ t # last.dest.parent => tensors[t] = pre[t]
         /\ tensors[t].len = pre[t].len
         /\ tensors[t].sym = pre[t].sym
    /\ \A n \in DOMAIN calls :
         /\ calls[n].C \in TensorIds => calls[n].C = last.dest.parent
         /\ calls[n].A \in TensorIds =>
              \E v \in LeafViews(last.term) \cup {last.dest} :
                v.parent = calls[n].A /\ v.idx_map = calls[n].idxA
         /\ calls[n].B \in TensorIds =>
              \E v \in LeafViews(last.term) \cup {last.dest} :
                v.parent = calls[n].B /\ v.idx_map = calls[n].idxB

\* a product of tensors other than the destination subtracted from it
C15_Witness ==
  /\ last.op = "-="
  /\ err = "ok"
  /\ last.term.kind = "contract"
  /\ last.dest.parent \notin Reads(last.term)
  /\ DestData # OldData
  /\ \A t \in Reads(last.term) : tensors[t] = pre[t]


(***************************************************************************)
(* C16.  Tensors created by the engine (intermediates and the private      *)
(* copies of copy-mode views) are released once their views are destroyed: *)
(* after construction and destruction of a view no engine-created tensor   *)
(* remains allocated, and no caller-owned tensor is released.              *)
(***************************************************************************)
C16_EngineTensorsAreReleased ==
  last.op = "delete" =>
    /\ intms = <<>>
    /\ DOMAIN tensors = TensorIds
    /\ tensors = pre

\* a copy-mode view made from a view and destroyed, its private tensor
\* still allocated
C16_Witness ==
  /\ last.op = "delete"
  /\ last.term.copy = 1
  /\ last.term.idx_map \in {v.idx_map : v \in OtherViews}
  /\ Len(intms) = 1
  /\ intms[1] = tensors[last.term.parent]


(***************************************************************************)
(* C17.  Every intermediate inferred for a contraction satisfies the       *)
(* tensor invariant: its length and symmetry sequences have exactly as     *)
(* many entries as its label sequence, every edge length is positive, and  *)
(* a tag other than NS at position i appears only when dimensions i and    *)
(* i+1 of the intermediate have equal edge length.                         *)
(***************************************************************************)
C17_IntermediateKeepsTensorInvariant ==
  giOut # NoTerm =>
    /\ Len(giOut.len) = Len(giOut.idx_map)
    /\ Len(giOut.sym) = Len(giOut.idx_map)
    /\ giOut.ndim = Len(giOut.idx_map)
    /\ \A d \in DOMAIN giOut.len : giOut.len[d] > 0
    /\ \A d \in DOMAIN giOut.sym :
         giOut.sym[d] # "NS" =>
           d + 1 \in DOMAIN giOut.len /\ giOut.len[d] = giOut.len[d + 1]

\* an intermediate with a tagged pair beside a dimension of another length,
\* made from an operand that lost a tagged dimension
C17_Witness ==
  /\ giOut # NoTerm
  /\ \E d \in DOMAIN giOut.sym : giOut.sym[d] # "NS"
  /\ \E d \in 1..(giOut.ndim - 1) : giOut.len[d] # giOut.len[d + 1]
  /\ \E X \in {giA, giB} : \E i \in DOMAIN X.sym :
       X.sym[i] # "NS" /\ X.idx_map[i] \notin Labels(giOut.idx_map)


(***************************************************************************)
(* C18.  The assignment operators carry beta in the destination view's own *)
(* scale and leave it changed: after view = term the view's scale is 0,    *)
(* after view += term or view -= term it is 1, whatever scale the view had *)
(* (a new view has scale 1 and is_intm 0); the prior scale is never used   *)
(* as beta; and a later use of the view object as an operand contributes   *)
(* with the stored 0 or 1.                                                 *)
(***************************************************************************)
StoredBeta == IF last.term.first = "=" THEN 0 ELSE 1

\* the first primitive call that writes tensor C, 0 if there is none
FirstWriteOf(cs, C) ==
  IF \E n \in DOMAIN cs : cs[n].C = C
  THEN CHOOSE n \in DOMAIN cs : cs[n].C = C /\ \A m \in 1..(n - 1) : cs[m].C # C
  ELSE 0

C18_ViewScaleCarriesBeta ==
  (last.op = "then use" /\ last.term.err1 = "ok" /\ err = "ok") =>
    LET u == last.term
        w == FirstWriteOf(u.calls1, u.view0.parent)
    IN  /\ u.fresh.scale = 1 /\ u.fresh.is_intm = 0
        /\ u.view1.scale = StoredBeta
        /\ u.view1 = [u.view0 EXCEPT !.scale = StoredBeta]
        /\ w # 0
        /\ u.calls1[w].beta = StoredBeta
        /\ \A n \in DOMAIN u.calls1 :
             (n # w /\ u.calls1[n].C = u.view0.parent) => u.calls1[n].beta = 1
        /\ calls = <<SumCall(StoredBeta, u.view0.parent, u.view0.idx_map,
                             1, last.dest.parent, last.dest.idx_map)>>
        /\ \A c \in DOMAIN DestData :
             DestData[c] = OldData[c] + StoredBeta * tensors[u.view0.parent].data[c]

\* a view that carried scale 2, assigned with =, then added to A: A is as
\* it was although the view's tensor is not zero
C18_Witness ==
  /\ last.op = "then use"
  /\ err = "ok"
  /\ last.term.first = "="
  /\ last.term.view0.scale = 2
  /\ last.term.view1.scale = 0
  /\ DestData = OldData
  /\ \E c \in DOMAIN DestData : tensors[last.term.view0.parent].data[c] # 0

====
